---- MODULE Spec2Model ----
(***************************************************************************)
(* Model of src/app.py: the Brayton-cycle function calculate_gas_cycle and *)
(* the Streamlit script main() that calls it on every rerun.               *)
(*                                                                         *)
(* Python floats are modelled as decimal fixed-point numbers: the integer  *)
(* n stands for the number n / Scale, and every operation that rounds in   *)
(* binary floating point (*, /, **) rounds here to the nearest multiple of *)
(* 1 / Scale, ties to even.  Addition and subtraction are exact on the     *)
(* grid.  The grid is far coarser than a double, but it rounds the same    *)
(* operations in the same places, so the rounding effects of the code      *)
(* (a power that rounds to 1, cancellation in w_t - w_c) are present.      *)
(***************************************************************************)
EXTENDS Integers, Sequences, FiniteSets, TLC

VARIABLES
    p_ratio,    \* argument p_ratio / the "Pressure Ratio" slider (line 41)
    t_max,      \* argument t_max / the "Turbine Inlet Temp" slider (line 42)
    t_amb,      \* argument t_amb / the "Ambient Temp" number input (line 43)
    k,          \* argument k
    cp,         \* argument cp
    p_steam,    \* the "Boiler Pressure" slider (line 46)
    t_steam,    \* the "Steam Temp" slider (line 47)
    result,     \* outcome of the last call of calculate_gas_cycle
    metrics,    \* what st.metric shows: <<net work, efficiency>>, or <<>>
    runs,       \* script runs so far
    calls,      \* calls of calculate_gas_cycle so far
    pc          \* "call" / "done" for a direct call, "idle" for the dashboard

vars == <<p_ratio, t_max, t_amb, k, cp, p_steam, t_steam, result, metrics,
          runs, calls, pc>>

\* One unit of the grid is 1 / Scale.
Scale == 100

\* ------------------------------------------------------------------------
\* Rounding arithmetic (the float operators of lines 23-29)
\* ------------------------------------------------------------------------

\* n / d rounded to the nearest integer, ties to even (d # 0).
RoundDiv(n, d) ==
    LET nn == IF d < 0 THEN -n ELSE n
        dd == IF d < 0 THEN -d ELSE d
        q  == nn \div dd
        r  == nn % dd
    IN  IF 2 * r < dd THEN q
        ELSE IF 2 * r > dd THEN q + 1
        ELSE IF q % 2 = 0 THEN q ELSE q + 1

\* a * b on floats.
Mul(a, b) == RoundDiv(a * b, Scale)

\* a / b on floats, b # 0 (Python raises ZeroDivisionError for b = 0 before
\* any division happens; the callers test for it).
Div(a, b) == RoundDiv(a * Scale, b)

\* ------------------------------------------------------------------------
\* Exact comparison of powers, for the ** operator.  Natural numbers that do
\* not fit a machine integer are sequences of base-10000 digits, least
\* significant first, without leading zeros (zero is <<>>).
\* ------------------------------------------------------------------------

\* <<digits, carry>> of a low part followed by those of a high part.
BigJoin(low, high) == <<low[1] \o high[1], high[2]>>

\* Digits lo..hi of x * c + carry, as <<digits, carry-out>>, by halving the
\* range (0 < c < 10000, so every carry is below 10000).
RECURSIVE BigMulRange(_, _, _, _, _)
RECURSIVE BigMulHigh(_, _, _, _, _)
BigMulRange(x, c, lo, hi, carry) ==
    IF lo = hi
    THEN <<(<<(x[lo] * c + carry) % 10000>>), (x[lo] * c + carry) \div 10000>>
    ELSE BigMulHigh(x, c, (lo + hi) \div 2 + 1, hi,
                    BigMulRange(x, c, lo, (lo + hi) \div 2, carry))

\* The digits below lo, already multiplied, followed by digits lo..hi.
BigMulHigh(x, c, lo, hi, low) ==
    BigJoin(low, BigMulRange(x, c, lo, hi, low[2]))

\* The digits of <<digits, carry-out>> as one number.
BigWithCarry(r) == IF r[2] = 0 THEN r[1] ELSE Append(r[1], r[2])

\* x * c for a big x and 0 < c < 10000.
BigMulSmall(x, c) ==
    IF Len(x) = 0 THEN <<>>
    ELSE BigWithCarry(BigMulRange(x, c, 1, Len(x), 0))

\* y * c^n for a y that is evaluated before the multiplications start.
RECURSIVE BigMulPow(_, _, _)
BigMulPowRest(y, c, n) == IF Len(y) = 0 THEN y ELSE BigMulPow(y, c, n)

\* x * c^n.
BigMulPow(x, c, n) ==
    IF n = 0 THEN x
    ELSE IF n = 1 THEN BigMulSmall(x, c)
    ELSE BigMulPowRest(BigMulPow(x, c, n \div 2), c, n - n \div 2)

\* The sign of a digit comparison, or that of the lower digits when it is 0.
RECURSIVE BigCmpRange(_, _, _, _)
BigCmpLower(high, x, y, lo, hi) ==
    IF high # 0 THEN high ELSE BigCmpRange(x, y, lo, hi)

\* -1, 0 or 1 as digits lo..hi of x are <, =, > those of y.
BigCmpRange(x, y, lo, hi) ==
    IF lo = hi
    THEN (IF x[lo] < y[lo] THEN -1 ELSE IF x[lo] > y[lo] THEN 1 ELSE 0)
    ELSE BigCmpLower(BigCmpRange(x, y, (lo + hi) \div 2 + 1, hi),
                     x, y, lo, (lo + hi) \div 2)

\* -1, 0 or 1 as x <, =, > y.
BigCmp(x, y) ==
    IF Len(x) < Len(y) THEN -1
    ELSE IF Len(x) > Len(y) THEN 1
    ELSE IF Len(x) = 0 THEN 0
    ELSE BigCmpRange(x, y, 1, Len(x))

RECURSIVE Gcd(_, _)
Gcd(a, b) == IF b = 0 THEN a ELSE Gcd(b, a % b)

\* Sign of (x / (2 * Scale))^b - (q / Scale)^a for naturals x, q > 0, a >= 0,
\* b > 0: compares x^b * Scale^a with q^a * (2 * Scale)^b.
CmpPow(x, b, q, a) ==
    BigCmp(BigMulPow(BigMulPow(<<1>>, x, b), Scale, a),
           BigMulPow(BigMulPow(<<1>>, q, a), 2 * Scale, b))

\* The largest n in lo..hi with ((2n - 1) / (2 * Scale))^b <= (q / Scale)^a,
\* i.e. with n - 1/2 <= Scale * (q / Scale)^(a / b); lo satisfies it.
RECURSIVE PowSearch(_, _, _, _, _)
PowSearchFrom(mid, lo, hi, b, q, a) ==
    IF CmpPow(2 * mid - 1, b, q, a) <= 0
    THEN PowSearch(mid, hi, b, q, a)
    ELSE PowSearch(lo, mid - 1, b, q, a)

PowSearch(lo, hi, b, q, a) ==
    IF lo = hi THEN lo ELSE PowSearchFrom((lo + hi + 1) \div 2, lo, hi, b, q, a)

\* n, or n - 1 when n is odd and exactly half way (ties go to even).
PowTieToEven(n, b, q, a) ==
    IF n > 0 /\ n % 2 = 1 /\ CmpPow(2 * n - 1, b, q, a) = 0 THEN n - 1 ELSE n

\* (q / Scale) ** (a / b) rounded to the grid, for q > 0 and 0 < a <= b.
PowRoot(q, a, b) ==
    PowTieToEven(PowSearch(IF q < Scale THEN 0 ELSE Scale,
                           IF q < Scale THEN Scale ELSE q, b, q, a),
                 b, q, a)

\* (q / Scale) ** (e / Scale) for q > 0 and 0 <= e <= Scale, correctly
\* rounded to the grid (ties to even).
PowPos(q, e) ==
    IF e = 0 \/ q = Scale THEN Scale
    ELSE PowRoot(q, e \div Gcd(e, Scale), Scale \div Gcd(e, Scale))

\* ------------------------------------------------------------------------
\* The inputs the model draws from
\* ------------------------------------------------------------------------

\* Default arguments of calculate_gas_cycle (line 21) on the grid: k = 1.4
\* and cp = 1.005, whose nearest grid point is 1.00.
k_default == 140
cp_default == 100

\* The widgets of main (lines 41-47): minimum, maximum and initial value.
\* The temperatures are integers of kelvin, the pressure ratio a float.
p_ratio_min == 500
p_ratio_max == 2000
p_ratio_value == 1200
t_max_min == 100000
t_max_max == 160000
t_max_value == 135000
t_amb_value == 29800
p_steam_min == 10
p_steam_max == 100
p_steam_value == 50
t_steam_min == 200
t_steam_max == 500
t_steam_value == 350

\* Direct calls: pressure ratios -5, 0, 1, 1.01 and the slider's values.
PRatios == {-500, 0, 100, 101, p_ratio_min, p_ratio_value, p_ratio_max}

\* Direct calls: k = 0, 1, the default 1.4, and 2.
Ks == {0, 100, k_default, 200}

\* Direct calls: cp = 0.01, 0.5, the default, 1.01.
Cps == {1, 50, cp_default, 101}

\* Direct calls: ambient temperatures -10, 0, 0.01, 298 and 2000 K.
TAmbs == {-1000, 0, 1, t_amb_value, 200000}

\* Direct calls: turbine inlet temperatures 298 K, the slider's initial and
\* maximal value, and NearWidth + 1 consecutive grid points from NearBase
\* (613.80 K) on, which surround t2 = 613.88 K of the default call.
NearWidth == 12
NearBase == 613 * Scale + 80
TMaxs == {t_amb_value, t_max_value, t_max_max} \cup (NearBase .. NearBase + NearWidth)

\* ------------------------------------------------------------------------
\* The ** operator of Python on floats (lines 23 and 25)
\* ------------------------------------------------------------------------

\* A slip: the exponent written with the denominator k - 1.
ExponentDenominator_k_minus_1(kk) == kk - Scale

\* The denominator of (k-1)/k; Python raises ZeroDivisionError when it is 0.
ExponentDenominator(kk) == kk

\* (k-1)/k for a k whose denominator is not 0.
Exponent(kk) == Div(kk - Scale, ExponentDenominator(kk))

\* PowPos on the bases and exponents the model uses, evaluated once.
PowBases == {q \in PRatios : q > 0}
PowExponents == {Exponent(kk) : kk \in {x \in Ks : ExponentDenominator(x) # 0}}
PowTable == [q \in PowBases, e \in PowExponents |-> PowPos(q, e)]

\* p ** e is a complex number for a negative base and a non-integer exponent.
PowIsComplex(p, e) == p < 0 /\ e % Scale # 0

\* A slip: * written for **.
Pow_times(p, e) == Mul(p, e)

\* p ** e where it is a float, for 0 <= e <= 1: x ** 0.0 is 1.0 for every x,
\* 0.0 ** e is 0.0, x ** 1.0 is x, and a positive base is looked up.
Pow(p, e) ==
    IF e = 0 THEN Scale
    ELSE IF p = 0 THEN 0
    ELSE IF e = Scale THEN p
    ELSE PowTable[p, e]

\* ------------------------------------------------------------------------
\* calculate_gas_cycle (lines 21-30)
\* ------------------------------------------------------------------------

\* The function returned: its locals at line 30.
Return(frame) == [exc |-> "none", line |-> 30, frame |-> frame]

\* A slip: the exception caught inside and a tuple of zeros returned.
Raise_swallowed(exc, line) ==
    Return([t2 |-> 0, w_c |-> 0, t4 |-> 0, w_t |-> 0, w_net |-> 0,
            q_in |-> 0, eff |-> 0])

\* The function raised exc on the given line.
Raise(exc, line) == [exc |-> exc, line |-> line, frame |-> <<>>]

\* Line 23: t2 from the ambient temperature and the power.
T2(tamb, power) == Mul(tamb, power)

\* A slip: the expansion written with * like the compression.
T4_times(tmax, power) == Mul(tmax, power)

\* Line 25: t4 from the turbine inlet temperature and the power (power # 0).
T4(tmax, power) == Div(tmax, power)

\* A slip: the guard written q_in >= 0.
q_in_nonnegative(q_in) == q_in >= 0

\* The condition of line 29.
q_in_positive(q_in) == q_in > 0

\* Lines 23-30 once the power p_ratio ** ((k-1)/k) is known to be a float.
\* Exceptions: t_max / 0.0 when the power is 0.0 (line 25), and the division
\* w_net / q_in, were it reached with q_in = 0 (line 29).
cycle(power, tmax, tamb, c) ==
    LET t2    == T2(tamb, power)
        w_c   == Mul(c, t2 - tamb)
    IN  IF power = 0 THEN Raise("ZeroDivisionError", 25)
        ELSE LET t4    == T4(tmax, power)
                 w_t   == Mul(c, tmax - t4)
                 w_net == w_t - w_c
                 q_in  == Mul(c, tmax - t2)
             IN  IF q_in_positive(q_in) /\ q_in = 0
                 THEN Raise("ZeroDivisionError", 29)
                 ELSE Return([t2 |-> t2, w_c |-> w_c, t4 |-> t4, w_t |-> w_t,
                              w_net |-> w_net, q_in |-> q_in,
                              eff |-> IF q_in_positive(q_in)
                                      THEN Mul(Div(w_net, q_in), 100 * Scale)
                                      ELSE 0])

\* The whole call.  Exceptions before the power is a float: (k-1)/k with
\* k = 0 (line 23), and the comparison q_in > 0 of a complex q_in (line 29: a
\* complex power makes t2 and all that follows complex, and no operation
\* before the comparison fails on a complex number).
calculate_gas_cycle(p, tmax, tamb, kk, c) ==
    IF ExponentDenominator(kk) = 0 THEN Raise("ZeroDivisionError", 23)
    ELSE IF PowIsComplex(p, Exponent(kk)) THEN Raise("TypeError", 29)
    ELSE cycle(Pow(p, Exponent(kk)), tmax, tamb, c)

\* ------------------------------------------------------------------------
\* Direct calls of calculate_gas_cycle with arbitrary arguments
\* ------------------------------------------------------------------------

NoResult == [exc |-> "pending", line |-> 0, frame |-> <<>>]

Init ==
    /\ p_ratio \in PRatios
    /\ t_max \in TMaxs
    /\ t_amb \in TAmbs
    /\ k \in Ks
    /\ cp \in Cps
    /\ p_steam = p_steam_value
    /\ t_steam = t_steam_value
    /\ result = NoResult
    /\ metrics = <<>>
    /\ runs = 0
    /\ calls = 0
    /\ pc = "call"

Call ==
    /\ pc = "call"
    /\ result' = calculate_gas_cycle(p_ratio, t_max, t_amb, k, cp)
    /\ calls' = calls + 1
    /\ pc' = "done"
    /\ UNCHANGED <<p_ratio, t_max, t_amb, k, cp, p_steam, t_steam, metrics, runs>>

Next == Call

Spec == Init /\ [][Next]_vars

\* ------------------------------------------------------------------------
\* The dashboard: main (lines 32-115).  Streamlit runs the script once when
\* the page opens and once more after every change of a widget; a run reads
\* the widgets, calls calculate_gas_cycle with the default k and cp (line 74)
\* and shows the two metrics (lines 77-78).  An interaction is a change of a
\* widget's value; the tabs and expanders are containers of the browser and
\* send nothing to the script.
\* ------------------------------------------------------------------------

\* Script runs the model follows.
MaxRuns == 4

\* Positions the user gives the sliders: the ends and the initial value.
PRatioChoices == {p_ratio_min, p_ratio_value, p_ratio_max}
TMaxChoices == {t_max_min, t_max_value, t_max_max}
PSteamChoices == {p_steam_min, p_steam_value, p_steam_max}
TSteamChoices == {t_steam_min, t_steam_value, t_steam_max}

\* Integers the user types into the number input, which has neither a
\* min_value nor a max_value (line 43): -10, 0, 298 and 2000 K.
TAmbChoices == {-10 * Scale, 0, t_amb_value, 2000 * Scale}

\* f"{w_net:.2f}" (line 77): the number of hundredths shown.
Format2f(x) == RoundDiv(x * 100, Scale)

\* f"{eff:.1f}" (line 78): the number of tenths shown.
Format1f(x) == RoundDiv(x * 10, Scale)

\* Lines 76-78: the metrics of a run; an exception of line 74 ends the run
\* before them.
Metrics(r) ==
    IF r.exc = "none"
    THEN <<Format2f(r.frame.w_net), Format1f(r.frame.eff)>>
    ELSE <<>>

\* One run of the script on the widget values p, tmax, tamb.
main(p, tmax, tamb) ==
    /\ runs < MaxRuns
    /\ result' = calculate_gas_cycle(p, tmax, tamb, k_default, cp_default)
    /\ metrics' = Metrics(result')
    /\ runs' = runs + 1
    /\ calls' = calls + 1
    /\ UNCHANGED <<k, cp, pc>>

\* The page after its first run.
InitMain ==
    /\ p_ratio = p_ratio_value
    /\ t_max = t_max_value
    /\ t_amb = t_amb_value
    /\ k = k_default
    /\ cp = cp_default
    /\ p_steam = p_steam_value
    /\ t_steam = t_steam_value
    /\ result = calculate_gas_cycle(p_ratio_value, t_max_value, t_amb_value,
                                    k_default, cp_default)
    /\ metrics = Metrics(result)
    /\ runs = 1
    /\ calls = 1
    /\ pc = "idle"

\* The user moves the pressure-ratio slider (line 41).
SetPRatio ==
    \E v \in PRatioChoices \ {p_ratio} :
        /\ p_ratio' = v
        /\ main(v, t_max, t_amb)
        /\ UNCHANGED <<t_max, t_amb, p_steam, t_steam>>

\* The user moves the turbine-inlet-temperature slider (line 42).
SetTMax ==
    \E v \in TMaxChoices \ {t_max} :
        /\ t_max' = v
        /\ main(p_ratio, v, t_amb)
        /\ UNCHANGED <<p_ratio, t_amb, p_steam, t_steam>>

\* A slip: the result cached on the two sliders of the gas cycle, so that a
\* new ambient temperature shows the old metrics.
SetTAmb_cached ==
    \E v \in TAmbChoices \ {t_amb} :
        /\ runs < MaxRuns
        /\ t_amb' = v
        /\ runs' = runs + 1
        /\ UNCHANGED <<p_ratio, t_max, k, cp, p_steam, t_steam, result,
                       metrics, calls, pc>>

\* The user enters an ambient temperature (line 43).
SetTAmb ==
    \E v \in TAmbChoices \ {t_amb} :
        /\ t_amb' = v
        /\ main(p_ratio, t_max, v)
        /\ UNCHANGED <<p_ratio, t_max, p_steam, t_steam>>

\* The user moves the boiler-pressure slider (line 46).
SetPSteam ==
    \E v \in PSteamChoices \ {p_steam} :
        /\ p_steam' = v
        /\ main(p_ratio, t_max, t_amb)
        /\ UNCHANGED <<p_ratio, t_max, t_amb, t_steam>>

\* The user moves the steam-temperature slider (line 47).
SetTSteam ==
    \E v \in TSteamChoices \ {t_steam} :
        /\ t_steam' = v
        /\ main(p_ratio, t_max, t_amb)
        /\ UNCHANGED <<p_ratio, t_max, t_amb, p_steam>>

NextMain == SetPRatio \/ SetTMax \/ SetTAmb \/ SetPSteam \/ SetTSteam

SpecMain == InitMain /\ [][NextMain]_vars

\* ------------------------------------------------------------------------
\* Properties of calculate_gas_cycle (specification Spec)
\* ------------------------------------------------------------------------

\* The call has returned (line 30).
Returned == pc = "done" /\ result.exc = "none"

\* The arguments of the concrete scenario: 12.0, 1350, 298, 1.4, 1.005.
Scenario ==
    /\ p_ratio = p_ratio_value
    /\ t_max = t_max_value
    /\ t_amb = t_amb_value
    /\ k = k_default
    /\ cp = cp_default

\* C1: whenever the heat input q_in = cp * (t_max - t2) is <= 0 the call
\* returns an efficiency of exactly 0, otherwise it returns
\* (w_net / q_in) * 100; the division of line 29 never raises.
C1_EfficiencyGuard ==
    pc = "done" =>
        /\ result.exc = "ZeroDivisionError" => result.line \in {23, 25}
        /\ result.exc = "none" =>
            /\ result.frame.q_in = Mul(cp, t_max - result.frame.t2)
            /\ (cp > 0 /\ result.frame.t2 >= t_max) => result.frame.q_in <= 0
            /\ result.frame.q_in <= 0 => result.frame.eff = 0
            /\ result.frame.q_in > 0 =>
                   result.frame.eff =
                       Mul(Div(result.frame.w_net, result.frame.q_in), 100 * Scale)

\* C1 witness: a call with t2 = t_max and cp > 0, so q_in = 0, has returned
\* with efficiency 0 (the division would have raised).
C1_Witness ==
    /\ Returned
    /\ cp > 0
    /\ p_ratio > Scale
    /\ result.frame.t2 = t_max
    /\ result.frame.q_in = 0
    /\ result.frame.eff = 0

\* The inputs of C2: p_ratio > 1, k > 1, t_max > t_amb > 0.
C2_Valid == p_ratio > Scale /\ k > Scale /\ t_max > t_amb /\ t_amb > 0

\* C2 as stated: for valid inputs t2 > t_amb and t4 < t_max, strictly.
C2_Original ==
    (pc = "done" /\ C2_Valid) =>
        /\ result.exc = "none"
        /\ result.frame.t2 > t_amb
        /\ result.frame.t4 < t_max

\* C2 amended: for valid inputs the call returns t2 >= t_amb and
\* t4 <= t_max; equality happens where rounding makes the power 1.
C2_NonStrict ==
    (pc = "done" /\ C2_Valid) =>
        /\ result.exc = "none"
        /\ result.frame.t2 >= t_amb
        /\ result.frame.t4 <= t_max

\* C2 witness: a valid call that returned t2 = t_amb and t4 = t_max.
C2_Witness ==
    /\ Returned
    /\ C2_Valid
    /\ result.frame.t2 = t_amb
    /\ result.frame.t4 = t_max

C4_Original ==
    (pc = "done" /\ k = Scale /\ p_ratio > Scale /\ cp > 0
        /\ t_max > t_amb /\ t_amb > 0) =>
        result.exc # "none"

\* C4 amended: with k = 1 the exponent is 0 / 1 = 0 and the call returns
\* t2 = t_amb, t4 = t_max, net work 0 and efficiency 0; the zero denominator
\* is that of k = 0, and that call ends in ZeroDivisionError on line 23.
C4_ZeroDenominator ==
    pc = "done" =>
        /\ k = Scale =>
            /\ result.exc = "none"
            /\ result.frame.t2 = t_amb
            /\ result.frame.t4 = t_max
            /\ result.frame.w_net = 0
            /\ result.frame.eff = 0
        /\ k = 0 => (result.exc = "ZeroDivisionError" /\ result.line = 23)

\* C4 witness: a call with k = 1 and the scenario's other arguments returned.
C4_Witness ==
    /\ Returned
    /\ k = Scale
    /\ p_ratio = p_ratio_value /\ t_max = t_max_value /\ t_amb = t_amb_value
    /\ result.frame.t4 = t_max_value

\* C5: with p_ratio = 1 and k > 1 the call returns t2 = t_amb, t4 = t_max,
\* compressor work 0 and net work = turbine work.
C5_UnitRatio ==
    (pc = "done" /\ p_ratio = Scale /\ k > Scale) =>
        /\ result.exc = "none"
        /\ result.frame.t2 = t_amb
        /\ result.frame.t4 = t_max
        /\ result.frame.w_c = 0
        /\ result.frame.w_net = result.frame.w_t

\* C5 witness: such a call with the default k and distinct temperatures.
C5_Witness ==
    /\ Returned
    /\ p_ratio = Scale
    /\ k = k_default
    /\ t_max # t_amb
    /\ result.frame.t2 = t_amb
    /\ result.frame.w_c = 0

\* C6 as stated: in the scenario the net work is at least 10 and below
\* 100 kJ/kg and the efficiency is positive and below 60 percent.
C6_Original ==
    (pc = "done" /\ Scenario) =>
        /\ result.exc = "none"
        /\ result.frame.w_net >= 10 * Scale
        /\ result.frame.w_net < 100 * Scale
        /\ result.frame.eff > 0
        /\ result.frame.eff < 60 * Scale

\* C6 amended: in the scenario the net work is in the hundreds of kJ/kg (at
\* least 100 and below 1000) and the efficiency is positive and below 60
\* percent.
C6_Hundreds ==
    (pc = "done" /\ Scenario) =>
        /\ result.exc = "none"
        /\ result.frame.w_net >= 100 * Scale
        /\ result.frame.w_net < 1000 * Scale
        /\ result.frame.eff > 0
        /\ result.frame.eff < 60 * Scale

\* C6 witness: the scenario's call has returned a net work above 300 kJ/kg.
C6_Witness == Returned /\ Scenario /\ result.frame.w_net > 300 * Scale

\* C10 as stated: for p_ratio >= 1, k > 1, cp > 0, t_amb > 0 and any t_max
\* the call returns an efficiency with 0 <= eff < 100.
C10_EfficiencyRange ==
    (pc = "done" /\ p_ratio >= Scale /\ k > Scale /\ cp > 0 /\ t_amb > 0) =>
        /\ result.exc = "none"
        /\ result.frame.eff >= 0
        /\ result.frame.eff < 100 * Scale

\* ------------------------------------------------------------------------
\* Properties of the dashboard (specification SpecMain)
\* ------------------------------------------------------------------------

\* C7 as stated: every call main makes has p_ratio > 1 and
\* t_max > t_amb > 0 (the widgets hold the arguments of the last call).
C7_ArgumentsValid ==
    pc = "idle" => (p_ratio > Scale /\ t_max > t_amb /\ t_amb > 0)

\* C8: after any interactions there has been one evaluation per script run,
\* the result is that of calculate_gas_cycle on the current widget values,
\* and the metrics shown are that result, formatted.
C8_FreshEvaluation ==
    pc = "idle" =>
        /\ calls = runs
        /\ result = calculate_gas_cycle(p_ratio, t_max, t_amb, k_default, cp_default)
        /\ result.exc = "none"
        /\ metrics = <<Format2f(result.frame.w_net), Format1f(result.frame.eff)>>

\* C8 witness: after MaxRuns - 1 interactions that changed the ambient
\* temperature and the pressure ratio, the metrics differ from the first
\* run's.
C8_Witness ==
    /\ pc = "idle"
    /\ runs = MaxRuns
    /\ t_amb # t_amb_value
    /\ p_ratio # p_ratio_value
    /\ metrics # Metrics(calculate_gas_cycle(p_ratio_value, t_max_value,
                                             t_amb_value, k_default, cp_default))
    /\ metrics = Metrics(result)

====
